---- MODULE Spec2Model ----
(***************************************************************************)
(* generate_master_feed.py: roster discovery, paginated fetch of standard  *)
(* and advanced game logs, join, derive, sort and export.                  *)
(*                                                                         *)
(* Encodings.  A nullable value is None (<<>>) or Some(x) (<<x>>).         *)
(* A string is a sequence of one-character strings.  A name is a sequence  *)
(* of character codes (0 is the space).  A game date "YYYY-MM-DD<rest>"    *)
(* is <<y, m, d, rest>>, rest = 0 for the bare ten characters and > 0 for  *)
(* a time suffix; tuple order is then the order of the strings.  MIN is    *)
(* kept in hundredths of a minute, Usage in tenths of a percent and        *)
(* usage_percentage in ten-thousandths.                                    *)
(***************************************************************************)
EXTENDS Integers, Sequences, FiniteSets, TLC

None == <<>>
Some(x) == <<x>>

Min2(a, b) == IF a < b THEN a ELSE b

Range(s) == {s[k] : k \in 1..Len(s)}

(* Python truthiness of a cursor: None, 0 and "" are falsy. *)
Truthy(c) == c # None /\ c[1] # 0

(***************************************************************************)
(* Bounds of the model.                                                    *)
(***************************************************************************)
RosterServed == 20   \* players the upstream puts on one roster page
StatsServed == 2     \* stat lines the upstream puts on one stats page
MaxRetries == 2      \* consecutive 429 answers that are told apart
MaxStd == 3          \* longest std_logs the merge is tried on
MaxAdv == 2          \* longest adv_logs the merge is tried on

(***************************************************************************)
(* Program constants.                                                      *)
(***************************************************************************)
chunk_size == 50
SeasonCutoff == <<2024, 9, 1, 0>>          \* '2024-09-01'

(***************************************************************************)
(* The upstream API.  A list endpoint serves its items by ascending id:    *)
(* the items after the cursor, at most n of them, and next_cursor = the id *)
(* of the last one served when more remain.                                *)
(***************************************************************************)
AfterCursor(items, c) ==
    SelectSeq(items, LAMBDA r : r.id > (IF c = None THEN 0 ELSE c[1]))

ServePage(items, c, n) ==
    LET rest == AfterCursor(items, c)
        data == SubSeq(rest, 1, Min2(n, Len(rest)))
    IN  [data |-> data,
         next |-> IF Len(rest) > n THEN Some(data[Len(data)].id) ELSE None]

Game(h, v) == [home_team |-> [id |-> h], visitor_team |-> [id |-> v]]

(* What /games may answer for today. *)
Schedules == { <<>>, <<Game(1, 2)>>, <<Game(1, 2), Game(2, 1)>> }

(* /players?team_ids[]=t : team 1 holds players 1..27, team 2 players 27..53 *)
(* (player 27 is listed by both).                                            *)
RosterOf(t) ==
    IF t = 1 THEN [k \in 1..27 |-> [id |-> k]]
             ELSE [k \in 1..27 |-> [id |-> 26 + k]]

Str_35_30 == <<"3", "5", ":", "3", "0">>
Str_0_00 == <<"0", ":", "0", "0">>
Str_12 == <<"1", "2">>
Str_x == <<"x">>
Str_5_ == <<"5", ":">>
Str_0 == <<"0">>
Str_00 == <<"0", "0">>
Str_empty == <<>>

StdRec(i, pid, first, last, gid, date, home, vis, tid, abbr, m, p, r, a, s, b, t) ==
    [id |-> i,
     player |-> [id |-> pid, first_name |-> first, last_name |-> last],
     game |-> [id |-> gid, date |-> date, home_team_id |-> home,
               visitor_team_id |-> vis],
     team |-> [id |-> tid, abbreviation |-> abbr],
     min |-> m, pts |-> p, reb |-> r, ast |-> a, stl |-> s, blk |-> b,
     turnover |-> t]

AdvRec(i, pid, gid, u, d, n, p) ==
    [id |-> i, player |-> [id |-> pid], game |-> [id |-> gid],
     usage_percentage |-> u, defensive_rating |-> d, net_rating |-> n,
     pace |-> p]

(* /stats : every standard stat line the upstream holds, by ascending id. *)
StdTable ==
    << StdRec(1, 1, <<1>>, <<2>>, 100, <<2025, 1, 2, 0>>, 1, 2, 1, "AAA",
              Some(Str_35_30), Some(20), Some(5), Some(7), Some(1), Some(0), Some(3)),
       StdRec(2, 2, <<1, 2>>, <<1>>, 100, <<2025, 1, 2, 0>>, 1, 2, 1, "AAA",
              Some(Str_0_00), Some(0), None, Some(0), None, None, None),
       StdRec(3, 27, <<2>>, <<1>>, 101, <<2024, 3, 1, 1>>, 2, 1, 2, "BBB",
              Some(Str_12), Some(4), Some(1), None, Some(0), Some(2), Some(1)),
       StdRec(4, 51, <<1>>, <<2>>, 101, <<2024, 3, 1, 1>>, 2, 1, 2, "BBB",
              None, None, None, None, None, None, None),
       StdRec(5, 52, <<3>>, <<1>>, 100, <<2025, 1, 2, 0>>, 1, 2, 2, "BBB",
              Some(Str_x), Some(9), Some(2), Some(2), Some(1), Some(1), Some(0)) >>

(* /stats/advanced : every advanced stat line the upstream holds. *)
AdvTable ==
    << AdvRec(1, 1, 100, Some(2534), Some(1105), Some(-32), Some(987)),
       AdvRec(2, 27, 101, None, None, None, None),
       AdvRec(3, 52, 100, Some(1876), Some(1010), Some(45), Some(1002)),
       AdvRec(4, 2, 100, Some(0), Some(1200), Some(-100), Some(987)) >>

OfPlayers(table, chunk) ==
    SelectSeq(table, LAMBDA r : r.player.id \in Range(chunk))

(***************************************************************************)
(* merge_and_export: the pure parts.                                       *)
(***************************************************************************)
Digits == {"0", "1", "2", "3", "5"}

DigitVal(c) ==
    CASE c = "0" -> 0 [] c = "1" -> 1 [] c = "2" -> 2 [] c = "3" -> 3
      [] c = "5" -> 5

(* Lexicographic order of two strings given as sequences of codes; a proper *)
(* prefix comes first.                                                      *)
RECURSIVE SeqLess(_, _)
SeqLess(a, b) ==
    IF b = <<>> THEN FALSE
    ELSE IF a = <<>> THEN TRUE
    ELSE IF Head(a) # Head(b) THEN Head(a) < Head(b)
    ELSE SeqLess(Tail(a), Tail(b))

(* m.split(":") *)
RECURSIVE Split(_)
Split(s) ==
    IF \A k \in 1..Len(s) : s[k] # ":" THEN <<s>>
    ELSE LET k == CHOOSE j \in 1..Len(s) :
                      s[j] = ":" /\ \A l \in 1..(j - 1) : s[l] # ":"
         IN  <<SubSeq(s, 1, k - 1)>> \o Split(SubSeq(s, k + 1, Len(s)))

(* int(x) of a string over the alphabet: None stands for ValueError. *)
RECURSIVE DigitsValue(_)
DigitsValue(s) ==
    IF s = <<>> THEN 0 ELSE 10 * DigitsValue(SubSeq(s, 1, Len(s) - 1)) + DigitVal(s[Len(s)])

IntParse(s) ==
    IF s = <<>> \/ \E k \in 1..Len(s) : s[k] \notin Digits THEN None
    ELSE Some(DigitsValue(s))

(* The skip test of line 143. *)
IsDNP_NoDoubleZero(m) == m = None \/ m[1] \in {Str_0, Str_0_00, Str_empty}

IsDNP(m) == m = None \/ m[1] \in {Str_0, Str_00, Str_0_00, Str_empty}

(* Lines 146-150 and the round(mins, 2) of line 179, in hundredths.  With a *)
(* colon: int(part 0) + int(part 1) / 60; otherwise float(m).  Any failure  *)
(* gives 0.0.  s / 60 is never half a hundredth away from a hundredth, so   *)
(* rounding to nearest is exact.                                            *)
ParseMin(m) ==
    IF \E k \in 1..Len(m) : m[k] = ":"
    THEN LET parts == Split(m)
             a == IntParse(parts[1])
             b == IntParse(parts[2])
         IN  IF a = None \/ b = None THEN 0
             ELSE 100 * a[1] + (10 * b[1] + 3) \div 6
    ELSE LET f == IntParse(m)
         IN  IF f = None THEN 0 ELSE 100 * f[1]

(* s.get(k, 0) or 0 *)
OrZero(o) == IF o = None THEN 0 ELSE o[1]

KeyOf(r) == <<r.player.id, r.game.id>>

(* Lines 135-138: adv_map, as the index in adv_logs of the record a key maps *)
(* to (0 when the key is absent); a later record overwrites an earlier one.  *)
AdvIndex_FirstWins(adv, key) ==
    LET hits == {k \in 1..Len(adv) : KeyOf(adv[k]) = key}
    IN  IF hits = {} THEN 0 ELSE CHOOSE k \in hits : \A j \in hits : k <= j

AdvIndex(adv, key) ==
    LET hits == {k \in 1..Len(adv) : KeyOf(adv[k]) = key}
    IN  IF hits = {} THEN 0 ELSE CHOOSE k \in hits : \A j \in hits : j <= k

(* adv_map.get((pid, gid), {}) followed by adv.get(field) *)
AdvGet(adv, key, field) ==
    IF AdvIndex(adv, key) = 0 THEN None ELSE adv[AdvIndex(adv, key)][field]

(* round((usage_percentage or 0) * 100, 1), from ten-thousandths to tenths. *)
UsageOf(u) == (OrZero(u) + 5) \div 10

(* Lines 153-198: the output row of one kept standard record. *)
MakeRow(s, adv) ==
    LET game == s.game
        team == s.team
        is_home == (team.id = game.home_team_id)
        pts == OrZero(s.pts)
        reb == OrZero(s.reb)
        ast == OrZero(s.ast)
    IN  [Date |-> SubSeq(game.date, 1, 3),
         Season |-> IF SeqLess(SeasonCutoff, game.date) THEN 2025 ELSE 2024,
         Player |-> s.player.first_name \o <<0>> \o s.player.last_name,
         Team |-> team.abbreviation,
         Loc |-> IF is_home THEN "Home" ELSE "Away",
         Opp_ID |-> IF is_home THEN game.visitor_team_id ELSE game.home_team_id,
         MIN |-> ParseMin(s.min[1]),
         PTS |-> pts, REB |-> reb, AST |-> ast,
         STL |-> OrZero(s.stl), BLK |-> OrZero(s.blk), TOV |-> OrZero(s.turnover),
         PRA |-> pts + reb + ast, PR |-> pts + reb, PA |-> pts + ast,
         Stocks |-> OrZero(s.stl) + OrZero(s.blk),
         Usage |-> UsageOf(AdvGet(adv, KeyOf(s), "usage_percentage")),
         DefRtg |-> AdvGet(adv, KeyOf(s), "defensive_rating"),
         NetRtg |-> AdvGet(adv, KeyOf(s), "net_rating"),
         Pace |-> AdvGet(adv, KeyOf(s), "pace")]

(* Lines 140-199: the rows list, in the order of std_logs. *)
RECURSIVE MergeRows(_, _)
MergeRows(std, adv) ==
    IF std = <<>> THEN <<>>
    ELSE IF IsDNP(Head(std).min) THEN MergeRows(Tail(std), adv)
    ELSE <<MakeRow(Head(std), adv)>> \o MergeRows(Tail(std), adv)

(* Line 202: a comes strictly before b under Date descending, Player *)
(* ascending.                                                         *)
Before(a, b) ==
    \/ SeqLess(b.Date, a.Date)
    \/ a.Date = b.Date /\ SeqLess(a.Player, b.Player)

(* Line 202: sort_values on two keys is a lexsort, which keeps the order of *)
(* rows equal on both keys.                                                 *)
RECURSIVE Insert(_, _)
Insert_BeforeTies(r, sorted) ==
    IF sorted = <<>> THEN <<r>>
    ELSE IF ~Before(Head(sorted), r) THEN <<r>> \o sorted
    ELSE <<Head(sorted)>> \o Insert(r, Tail(sorted))

Insert(r, sorted) ==
    IF sorted = <<>> THEN <<r>>
    ELSE IF Before(r, Head(sorted)) THEN <<r>> \o sorted
    ELSE <<Head(sorted)>> \o Insert(r, Tail(sorted))

RECURSIVE SortRows(_)
SortRows(rs) ==
    IF rs = <<>> THEN <<>>
    ELSE Insert(rs[Len(rs)], SortRows(SubSeq(rs, 1, Len(rs) - 1)))

(***************************************************************************)
(* State.  The program's variables, main's position (pc), the file on      *)
(* disk, and a record of the requests issued: the endpoints requested so   *)
(* far, the teams whose roster was requested, the (endpoint, batch) pairs  *)
(* requested, the last request and the last answer, the number of 429      *)
(* answers in a row (counted up to MaxRetries), and whether a stats        *)
(* request has raised.                                                     *)
(***************************************************************************)
VARIABLES pc, games, team_ids, tid, cursor, active_ids, ids, i, std_logs,
          adv_logs, rows, file, requested, queried, fetched, lastReq,
          lastResp, retries, failed

vars == <<pc, games, team_ids, tid, cursor, active_ids, ids, i, std_logs,
          adv_logs, rows, file, requested, queried, fetched, lastReq,
          lastResp, retries, failed>>

NoReq == [ep |-> "none", arg |-> <<>>, cursor |-> None]
NoResp == [status |-> "none", next |-> None]

Init ==
    /\ pc = "census"
    /\ games = <<>>
    /\ team_ids = {}
    /\ tid = 0
    /\ cursor = None
    /\ active_ids = <<>>
    /\ ids = <<>>
    /\ i = 0
    /\ std_logs = <<>>
    /\ adv_logs = <<>>
    /\ rows = <<>>
    /\ file = None
    /\ requested = {}
    /\ queried = {}
    /\ fetched = {}
    /\ lastReq = NoReq
    /\ lastResp = NoResp
    /\ retries = 0
    /\ failed = FALSE

(* if cursor: params['cursor'] = cursor *)
CursorParam(c) == IF Truthy(c) THEN c ELSE None

(* requests.get(...) with its answer: the record of a request. *)
Request(ep, arg, status, next) ==
    /\ requested' = requested \cup {ep}
    /\ lastReq' = [ep |-> ep, arg |-> arg, cursor |-> CursorParam(cursor)]
    /\ lastResp' = [status |-> status, next |-> next]
    /\ retries' = IF status = "429" THEN Min2(retries + 1, MaxRetries) ELSE 0

NoRequest == UNCHANGED <<requested, lastReq, lastResp, retries>>

(***************************************************************************)
(* get_todays_active_rosters                                               *)
(***************************************************************************)
TeamsOf(gs) ==
    {gs[k].home_team.id : k \in 1..Len(gs)}
        \cup {gs[k].visitor_team.id : k \in 1..Len(gs)}

(* Lines 37-39 raise (request or JSON failure): the except of line 73. *)
ScheduleFail ==
    /\ pc = "census"
    /\ Request("games", <<>>, "error", None)
    /\ ids' = <<>>
    /\ pc' = "main"
    /\ UNCHANGED <<games, team_ids, tid, cursor, active_ids, i, std_logs,
                   adv_logs, rows, file, queried, fetched, failed>>

(* Lines 37-48. *)
ScheduleOk ==
    /\ pc = "census"
    /\ \E gs \in Schedules :
         /\ games' = gs
         /\ Request("games", <<>>, "ok", None)
         /\ IF gs = <<>>
            THEN /\ ids' = <<>>
                 /\ pc' = "main"
                 /\ UNCHANGED team_ids
            ELSE /\ team_ids' = TeamsOf(gs)
                 /\ pc' = "rosters"
                 /\ UNCHANGED ids
    /\ UNCHANGED <<tid, cursor, active_ids, i, std_logs, adv_logs, rows, file,
                   queried, fetched, failed>>

(* Lines 53-54: the next team of the set, in the set's iteration order. *)
RosterNextTeam ==
    /\ pc = "rosters"
    /\ tid = 0
    /\ \E t \in team_ids :
         /\ tid' = t
         /\ team_ids' = team_ids \ {t}
    /\ cursor' = None
    /\ NoRequest
    /\ UNCHANGED <<pc, games, active_ids, ids, i, std_logs, adv_logs, rows,
                   file, queried, fetched, failed>>

PlayerIds(data) == [k \in 1..Len(data) |-> data[k].id]

(* Lines 57-65: one roster page answered. *)
RosterPageOk ==
    /\ pc = "rosters"
    /\ tid # 0
    /\ LET resp == ServePage(RosterOf(tid), CursorParam(cursor), RosterServed)
       IN  /\ Request("players", <<tid>>, "ok", resp.next)
           /\ active_ids' = active_ids \o PlayerIds(resp.data)
           /\ cursor' = resp.next
           /\ tid' = IF Truthy(resp.next) THEN tid ELSE 0
    /\ queried' = queried \cup {tid}
    /\ UNCHANGED <<pc, games, team_ids, ids, i, std_logs, adv_logs, rows, file,
                   fetched, failed>>

(* Where a roster page may raise: before any player is appended (the      *)
(* request or its JSON), at a malformed player in the middle of the page, *)
(* or after the last player (a malformed meta).                           *)
FailPoints(data) == {0, Len(data) \div 2, Len(data)}

(* What the except of lines 66-67 does to the team loop. *)
AfterRosterFail_Return ==
    /\ tid' = 0
    /\ team_ids' = {}

AfterRosterFail ==
    /\ tid' = 0
    /\ UNCHANGED team_ids

(* Lines 57-67: one roster page raises after k players were appended. *)
RosterPageFail ==
    /\ pc = "rosters"
    /\ tid # 0
    /\ LET resp == ServePage(RosterOf(tid), CursorParam(cursor), RosterServed)
       IN  \E k \in FailPoints(resp.data) :
             /\ Request("players", <<tid>>, "error", None)
             /\ active_ids' = active_ids \o SubSeq(PlayerIds(resp.data), 1, k)
    /\ AfterRosterFail
    /\ queried' = queried \cup {tid}
    /\ UNCHANGED <<pc, games, cursor, ids, i, std_logs, adv_logs, rows, file,
                   fetched, failed>>

Ascending(S) ==
    [k \in 1..Cardinality(S) |->
        CHOOSE x \in S : Cardinality({y \in S : y <= x}) = k]

Descending(S) ==
    [k \in 1..Cardinality(S) |->
        CHOOSE x \in S : Cardinality({y \in S : y >= x}) = k]

(* list(set(active_ids)): the order of a set is not specified; the two *)
(* extreme orders are tried.                                           *)
SetOrders(S) == {Ascending(S), Descending(S)}

(* Lines 69-71. *)
RosterReturn ==
    /\ pc = "rosters"
    /\ tid = 0
    /\ team_ids = {}
    /\ \E order \in SetOrders(Range(active_ids)) : ids' = order
    /\ pc' = "main"
    /\ NoRequest
    /\ UNCHANGED <<games, team_ids, tid, cursor, active_ids, i, std_logs,
                   adv_logs, rows, file, queried, fetched, failed>>

(***************************************************************************)
(* fetch_game_logs                                                         *)
(***************************************************************************)
(* player_ids[i:i + chunk_size] *)
Chunk == SubSeq(ids, i + 1, Min2(i + chunk_size, Len(ids)))

(* Line 91: the batch loop at offset j: its next batch, or the return. *)
BatchLoop(j) ==
    /\ i' = IF j < Len(ids) THEN j ELSE i
    /\ cursor' = None
    /\ pc' = IF j < Len(ids) THEN "std" ELSE "merge"

(* Lines 210-214: main after the census. *)
MainCheck_NoEmptyTest ==
    /\ pc = "main"
    /\ BatchLoop(0)
    /\ NoRequest
    /\ UNCHANGED <<games, team_ids, tid, active_ids, ids, std_logs, adv_logs,
                   rows, file, queried, fetched, failed>>

MainCheck ==
    /\ pc = "main"
    /\ IF ids = <<>>
       THEN /\ pc' = "done"
            /\ UNCHANGED <<i, cursor>>
       ELSE BatchLoop(0)
    /\ NoRequest
    /\ UNCHANGED <<games, team_ids, tid, active_ids, ids, std_logs, adv_logs,
                   rows, file, queried, fetched, failed>>

StdPage == ServePage(OfPlayers(StdTable, Chunk), CursorParam(cursor), StatsServed)
AdvPage == ServePage(OfPlayers(AdvTable, Chunk), CursorParam(cursor), StatsServed)

(* Lines 105-106 and 121-122: the cursor after a page, and whether the loop *)
(* goes on.                                                                 *)
NextCursor_FirstPageOnly(resp) == None

NextCursor(resp) == resp.next

(* Line 102 (and 118): a 429 answer; sleep, then the loop again. *)
OnRateLimit_SkipPage(resp) ==
    /\ cursor' = IF Truthy(resp.next) THEN resp.next ELSE cursor
    /\ UNCHANGED <<pc, i, std_logs, adv_logs>>

OnRateLimit_GiveUp(resp) ==
    /\ pc' = "merge"
    /\ UNCHANGED <<i, cursor, std_logs, adv_logs>>

OnRateLimit(resp) == UNCHANGED <<pc, i, cursor, std_logs, adv_logs>>

(* Lines 108-109: the standard loop is left for the advanced loop. *)
LeaveStd_Return ==
    /\ pc' = "merge"
    /\ cursor' = None
    /\ UNCHANGED i

LeaveStd ==
    /\ pc' = "adv"
    /\ cursor' = None
    /\ UNCHANGED i

(* Lines 99-107: a standard page answered. *)
StdOk ==
    /\ pc = "std"
    /\ LET resp == StdPage
       IN  /\ Request("stats", Chunk, "ok", resp.next)
           /\ std_logs' = std_logs \o resp.data
           /\ IF Truthy(NextCursor(resp))
              THEN /\ cursor' = NextCursor(resp)
                   /\ UNCHANGED <<pc, i>>
              ELSE LeaveStd
    /\ fetched' = fetched \cup {<<"stats", i>>}
    /\ UNCHANGED <<games, team_ids, tid, active_ids, ids, adv_logs, rows, file,
                   queried, failed>>

(* Lines 101-102: the standard request is answered 429. *)
StdRateLimited ==
    /\ pc = "std"
    /\ Request("stats", Chunk, "429", None)
    /\ OnRateLimit(StdPage)
    /\ fetched' = fetched \cup {<<"stats", i>>}
    /\ UNCHANGED <<games, team_ids, tid, active_ids, ids, rows, file, queried,
                   failed>>

(* Lines 101-109: the standard request or its parsing raises. *)
StdFail ==
    /\ pc = "std"
    /\ Request("stats", Chunk, "error", None)
    /\ LeaveStd
    /\ failed' = TRUE
    /\ fetched' = fetched \cup {<<"stats", i>>}
    /\ UNCHANGED <<games, team_ids, tid, active_ids, ids, std_logs, adv_logs,
                   rows, file, queried>>

(* Lines 115-123: an advanced page answered. *)
AdvOk ==
    /\ pc = "adv"
    /\ LET resp == AdvPage
       IN  /\ Request("stats/advanced", Chunk, "ok", resp.next)
           /\ adv_logs' = adv_logs \o resp.data
           /\ IF Truthy(NextCursor(resp))
              THEN /\ cursor' = NextCursor(resp)
                   /\ UNCHANGED <<pc, i>>
              ELSE BatchLoop(i + chunk_size)
    /\ fetched' = fetched \cup {<<"stats/advanced", i>>}
    /\ UNCHANGED <<games, team_ids, tid, active_ids, ids, std_logs, rows, file,
                   queried, failed>>

(* Lines 117-118: the advanced request is answered 429. *)
AdvRateLimited ==
    /\ pc = "adv"
    /\ Request("stats/advanced", Chunk, "429", None)
    /\ OnRateLimit(AdvPage)
    /\ fetched' = fetched \cup {<<"stats/advanced", i>>}
    /\ UNCHANGED <<games, team_ids, tid, active_ids, ids, rows, file, queried,
                   failed>>

(* Lines 117-125: the advanced request or its parsing raises. *)
AdvFail ==
    /\ pc = "adv"
    /\ Request("stats/advanced", Chunk, "error", None)
    /\ BatchLoop(i + chunk_size)
    /\ failed' = TRUE
    /\ fetched' = fetched \cup {<<"stats/advanced", i>>}
    /\ UNCHANGED <<games, team_ids, tid, active_ids, ids, std_logs, adv_logs,
                   rows, file, queried>>

(***************************************************************************)
(* merge_and_export                                                        *)
(***************************************************************************)
(* Lines 201-204: DataFrame(rows), sort_values, to_csv.  A frame built from *)
(* an empty list has no columns, so sort_values(['Date', 'Player']) raises  *)
(* KeyError and nothing is written.                                         *)
Export(rs) ==
    IF rs = <<>>
    THEN /\ pc' = "error"
         /\ UNCHANGED file
    ELSE /\ file' = Some(SortRows(rs))
         /\ pc' = "done"

(* Lines 131-205. *)
MergeAndExport ==
    /\ pc = "merge"
    /\ rows' = MergeRows(std_logs, adv_logs)
    /\ Export(rows')
    /\ NoRequest
    /\ UNCHANGED <<games, team_ids, tid, cursor, active_ids, ids, i, std_logs,
                   adv_logs, queried, fetched, failed>>

(***************************************************************************)
(* Specifications                                                          *)
(***************************************************************************)
RateLimited == StdRateLimited \/ AdvRateLimited

(* Every step but a 429 answer. *)
Progress ==
    \/ ScheduleFail
    \/ ScheduleOk
    \/ RosterNextTeam
    \/ RosterPageOk
    \/ RosterPageFail
    \/ RosterReturn
    \/ MainCheck
    \/ StdOk
    \/ StdFail
    \/ AdvOk
    \/ AdvFail
    \/ MergeAndExport

Next ==
    \/ ScheduleFail
    \/ ScheduleOk
    \/ RosterNextTeam
    \/ RosterPageOk
    \/ RosterPageFail
    \/ RosterReturn
    \/ MainCheck
    \/ StdOk
    \/ StdRateLimited
    \/ StdFail
    \/ AdvOk
    \/ AdvRateLimited
    \/ AdvFail
    \/ MergeAndExport

Spec == Init /\ [][Next]_vars

(* The program keeps running, and no request is answered 429 for ever. *)
FairSpec == Spec /\ WF_vars(Progress)

(***************************************************************************)
(* merge_and_export on its own, on every pair of lists of at most MaxStd   *)
(* standard and MaxAdv advanced records drawn from the pools below.        *)
(***************************************************************************)
PoolStd(i0, pid, first, last, gid, date, m, p) ==
    StdRec(i0, pid, first, last, gid, date, 1, 2, 1, "AAA", m, p, Some(1), None,
           Some(1), Some(0), None)

(* Two players of the same name on the same date (101, 102), an earlier     *)
(* game with a time suffix (103), a name that sorts first (104), and one    *)
(* record for each did-not-play value of min (105-109).                     *)
StdPool ==
    { PoolStd(101, 1, <<1>>, <<2>>, 100, <<2025, 1, 2, 0>>, Some(Str_35_30), Some(20)),
      PoolStd(102, 2, <<1>>, <<2>>, 100, <<2025, 1, 2, 0>>, Some(Str_x), Some(4)),
      PoolStd(103, 1, <<1>>, <<2>>, 101, <<2024, 9, 1, 1>>, Some(Str_5_), None),
      PoolStd(104, 3, <<1>>, <<1, 2>>, 100, <<2025, 1, 2, 0>>, Some(Str_12), Some(7)),
      PoolStd(105, 3, <<2>>, <<1>>, 101, <<2024, 9, 1, 0>>, None, Some(1)),
      PoolStd(106, 3, <<2>>, <<1>>, 101, <<2024, 9, 1, 0>>, Some(Str_0), Some(2)),
      PoolStd(107, 3, <<2>>, <<1>>, 101, <<2024, 9, 1, 0>>, Some(Str_00), Some(3)),
      PoolStd(108, 3, <<2>>, <<1>>, 101, <<2024, 9, 1, 0>>, Some(Str_0_00), Some(4)),
      PoolStd(109, 3, <<2>>, <<1>>, 101, <<2024, 9, 1, 0>>, Some(Str_empty), Some(5)) }

(* Two advanced records of one key (201, 202) and one of another key. *)
AdvPool ==
    { AdvRec(201, 1, 100, Some(2534), Some(1105), Some(-32), Some(987)),
      AdvRec(202, 1, 100, Some(1876), None, Some(45), Some(1002)),
      AdvRec(203, 2, 101, None, Some(990), None, Some(950)) }

BoundedSeqs(S, n) == UNION {[1..k -> S] : k \in 0..n}

MergeInit ==
    /\ pc = "merge"
    /\ games = <<Game(1, 2)>>
    /\ team_ids = {}
    /\ tid = 0
    /\ cursor = None
    /\ active_ids = <<1, 2, 3>>
    /\ ids = <<1, 2, 3>>
    /\ i = 0
    /\ std_logs \in BoundedSeqs(StdPool, MaxStd)
    /\ adv_logs \in BoundedSeqs(AdvPool, MaxAdv)
    /\ rows = <<>>
    /\ file = None
    /\ requested = {}
    /\ queried = {}
    /\ fetched = {}
    /\ lastReq = NoReq
    /\ lastResp = NoResp
    /\ retries = 0
    /\ failed = FALSE

MergeNext == MergeAndExport

MergeSpec == MergeInit /\ [][MergeNext]_vars

(***************************************************************************)
(* Properties                                                              *)
(***************************************************************************)
IsPrefix(a, b) == Len(a) <= Len(b) /\ SubSeq(b, 1, Len(a)) = a

RecIds(s) == [k \in 1..Len(s) |-> s[k].id]

StatsEndpoints == {"stats", "stats/advanced"}

FetchReturned == pc \in {"merge", "done", "error"} /\ ids # <<>>

(* C1: whenever the census returns an empty list (no game today, the       *)
(* schedule request failed, or no roster player was found), main goes      *)
(* straight to its normal end: no stats or advanced-stats request has been *)
(* issued, no row was built and the file is not written.                   *)
C1_EmptyCensusEndsRun ==
    (pc \notin {"census", "rosters"} /\ ids = <<>>)
        => /\ pc \in {"main", "done"}
           /\ requested \cap StatsEndpoints = {}
           /\ fetched = {}
           /\ file = None

(* C1 witness: both rosters were requested, none gave a player, and the run *)
(* has ended.                                                               *)
C1_Witness ==
    /\ pc = "done"
    /\ ids = <<>>
    /\ games # <<>>
    /\ queried = {1, 2}

(* C2: a step whose request is answered 429 leaves the cursor, the batch,   *)
(* both record lists and the loop unchanged, and the request that follows a *)
(* 429 answer is the same request: same endpoint, same batch, same cursor.  *)
C2_RateLimitRetriesSamePage ==
    /\ [][lastResp'.status = "429"
            => /\ cursor' = cursor
               /\ i' = i
               /\ pc' = pc
               /\ std_logs' = std_logs
               /\ adv_logs' = adv_logs]_vars
    /\ [][lastResp.status = "429" => lastReq' = lastReq]_vars

(* C2 witness: the second page of an advanced loop was answered 429 *)
(* MaxRetries times in a row.                                       *)
C2_Witness ==
    /\ pc = "adv"
    /\ lastResp.status = "429"
    /\ retries = MaxRetries
    /\ lastReq.cursor # None

BatchStarts == {j \in 0..(Len(ids) - 1) : j % chunk_size = 0}

C4_RosterFailureIsLocal ==
    /\ []((pc # "census" /\ games = <<>>)
            => ("players" \notin requested /\ ids = <<>> /\ queried = {}))
    /\ []((pc \notin {"census", "rosters"} /\ games # <<>>)
            => /\ queried = TeamsOf(games)
               /\ Range(ids) = Range(active_ids)
               /\ Cardinality(Range(ids)) = Len(ids))
    /\ [][IsPrefix(active_ids, active_ids')]_vars
    /\ [][(pc = "rosters" /\ tid # 0 /\ lastResp'.status = "error")
            => (pc' = "rosters" /\ team_ids' = team_ids /\ tid' = 0)]_vars

(* C4 witness: team 1 raised in the middle of its second page, team 2 was   *)
(* paged to its end.                                                        *)
C4_Witness ==
    /\ pc = "main"
    /\ Range(ids) = (1..23) \cup (27..53)

RECURSIVE BatchesOf(_, _)
BatchesOf(table, j) ==
    IF j >= Len(ids) THEN <<>>
    ELSE OfPlayers(table, SubSeq(ids, j + 1, Min2(j + chunk_size, Len(ids))))
             \o BatchesOf(table, j + chunk_size)

EndpointAt(p) == IF p = "std" THEN "stats" ELSE "stats/advanced"

(* The cursor the next request of the running loop is to carry. *)
ExpectedCursor ==
    LET same == lastReq.ep = EndpointAt(pc) /\ lastReq.arg = Chunk
    IN  IF same /\ lastResp.status = "ok" THEN lastResp.next
        ELSE IF same /\ lastResp.status = "429" THEN lastReq.cursor
        ELSE None

Merged == pc \in {"done", "error"}

(* The did-not-play values of min, as the specification lists them. *)
Sentinels == {None, Some(Str_0), Some(Str_00), Some(Str_0_00), Some(Str_empty)}

KeptAt == {k \in 1..Len(std_logs) : std_logs[k].min \notin Sentinels}

(* The place in rows of the row of the kept record std_logs[k]. *)
RowOf(k) == Cardinality({l \in KeptAt : l <= k})

MatchesOf(s) ==
    {k \in 1..Len(adv_logs) :
        /\ adv_logs[k].player.id = s.player.id
        /\ adv_logs[k].game.id = s.game.id}

(* C6: the advanced fields of a row are those of the last record of         *)
(* adv_logs with the player and game of its standard record; with no such   *)
(* record the row has Usage 0 and null DefRtg, NetRtg and Pace, and the     *)
(* merge still ends with the file written.                                  *)
C6_JoinOnPlayerAndGame ==
    Merged =>
        /\ Len(rows) = Cardinality(KeptAt)
        /\ \A k \in KeptAt :
             LET s == std_logs[k]
                 row == rows[RowOf(k)]
                 hits == MatchesOf(s)
             IN  IF hits = {}
                 THEN /\ row.Usage = 0
                      /\ row.DefRtg = None
                      /\ row.NetRtg = None
                      /\ row.Pace = None
                      /\ pc = "done"
                 ELSE LET a == adv_logs[CHOOSE h \in hits : \A g \in hits : g <= h]
                      IN  /\ row.Usage =
                               (IF a.usage_percentage = None THEN 0
                                ELSE (a.usage_percentage[1] + 5) \div 10)
                          /\ row.DefRtg = a.defensive_rating
                          /\ row.NetRtg = a.net_rating
                          /\ row.Pace = a.pace

(* C6 witness: two advanced records of the key of the first row, the later  *)
(* one used, and a second row with no advanced record.                      *)
C6_Witness ==
    /\ pc = "done"
    /\ RecIds(adv_logs) = <<201, 202>>
    /\ RecIds(std_logs) = <<101, 102>>
    /\ rows[1].Usage = 188
    /\ rows[1].NetRtg = Some(45)
    /\ rows[2].Usage = 0
    /\ rows[2].NetRtg = None

ExpectedMIN(m) ==
    CASE m = Str_35_30 -> 3550
      [] m = Str_12 -> 1200
      [] OTHER -> 0

(* C7: a standard record gives no row exactly when its min is null, "0",    *)
(* "00", "0:00" or ""; every other record gives one row, in the order of    *)
(* std_logs, with MIN 0 when min cannot be parsed; so there are as many     *)
(* rows as records whose min is none of the five values.                    *)
C7_RowsAreTheNonSentinelRecords ==
    Merged =>
        /\ Len(rows) = Cardinality(KeptAt)
        /\ \A k \in KeptAt :
             /\ rows[RowOf(k)].PTS = OrZero(std_logs[k].pts)
             /\ rows[RowOf(k)].MIN = ExpectedMIN(std_logs[k].min[1])
        /\ file # None => Len(file[1]) = Cardinality(KeptAt)

(* C7 witness: a "00" record between two records whose min cannot be        *)
(* parsed: two rows, both with MIN 0.                                       *)
C7_Witness ==
    /\ pc = "done"
    /\ RecIds(std_logs) = <<102, 107, 103>>
    /\ Len(rows) = 2
    /\ rows[1].MIN = 0
    /\ rows[2].MIN = 0
    /\ rows[2].Season = 2025

SameKey(a, b) == a.Date = b.Date /\ a.Player = b.Player

(* C8: the rows written are the rows emitted, by Date descending and, on    *)
(* one Date, by Player ascending; the rows of one Date and Player are       *)
(* written in the order they were emitted.                                  *)
C8_SortedAndStable ==
    file # None =>
        LET out == file[1]
        IN  /\ Len(out) = Len(rows)
            /\ \A a, b \in 1..Len(out) :
                 a < b =>
                   \/ SeqLess(out[b].Date, out[a].Date)
                   \/ /\ out[a].Date = out[b].Date
                      /\ ~SeqLess(out[b].Player, out[a].Player)
            /\ \A k \in 1..Len(rows) :
                 SelectSeq(out, LAMBDA r : SameKey(r, rows[k]))
                     = SelectSeq(rows, LAMBDA r : SameKey(r, rows[k]))

(* C8 witness: two different rows of one Date and Player, emitted before a  *)
(* row whose Player sorts first and a row of an earlier Date.               *)
C8_Witness ==
    /\ pc = "done"
    /\ RecIds(std_logs) = <<102, 101, 104>>
    /\ file = Some(<<rows[3], rows[1], rows[2]>>)
    /\ rows[1] # rows[2]
    /\ SameKey(rows[1], rows[2])

(* C9, as claimed: every run of main whose census returned an identifier    *)
(* ends with merge_and_export done and the file written.                    *)
C9_MergeAlwaysWrites ==
    (Merged /\ ids # <<>>) => (pc = "done" /\ file # None)

(* C10: once in fetch_game_logs the run leaves it, given that no request is *)
(* answered 429 for ever; a 429 answer is possible at every stats request   *)
(* whatever the number of 429 answers before it, and a step answered 429    *)
(* leaves the run in the same loop with no row built and no file written.   *)
C10_FetchReturnsUnless429Forever ==
    /\ (pc \in {"std", "adv"}) ~> FetchReturned
    /\ []((pc \in {"std", "adv"}) => ENABLED RateLimited)
    /\ [][lastResp'.status = "429"
            => /\ pc' = pc
               /\ pc' \in {"std", "adv"}
               /\ i' = i
               /\ rows' = <<>>
               /\ file' = None]_vars

(* C10 witness: the second batch's standard request answered 429 *)
(* MaxRetries times in a row.                                    *)
C10_Witness ==
    /\ pc = "std"
    /\ i = chunk_size
    /\ lastResp.status = "429"
    /\ retries = MaxRetries

====
